---- MODULE Spec2Model ----
(***************************************************************************)
(* LetRecovery website: the theme resolver (hooks/useTheme.tsx).           *)
(*                                                                         *)
(* ThemeProvider keeps two pieces of React state, theme and resolvedTheme, *)
(* one passive effect keyed on [theme], one localStorage entry, one        *)
(* matchMedia listener and the 'dark' class of the document root.          *)
(*                                                                         *)
(* React's scheduling is modelled by its contract: a state setter only     *)
(* queues the new value, the next render makes it the value the context    *)
(* exposes, and the effect of a render whose dependency changed runs in a  *)
(* later step, before the next render or unmount of the same component.    *)
(* Event handlers (setTheme from a consumer, the media query's 'change')   *)
(* may run between those steps.                                            *)
(***************************************************************************)
EXTENDS Naturals, Sequences, FiniteSets, TLC

\* ------------------------------------------------------------------ values

\* type Theme = 'light' | 'dark' | 'system'
Theme == {"light", "dark", "system"}

\* resolvedTheme: 'light' | 'dark'
Resolved == {"light", "dark"}

\* No value: an empty update queue, no effect installed, getItem's null.
None == "none"

\* What the key 'letrecovery-theme' may hold when the page loads: nothing
\* (getItem returns null), one of the three literals, or any other string
\* (here a wrong-case literal and the empty string).
Corrupt == {"Dark", ""}
StoredValue == {None} \cup Theme \cup Corrupt

\* Browser tabs of the same origin: each has its own React tree, document
\* and media query list; localStorage and the OS signal are shared.
Tab == {1, 2}

\* The tabs that are opened in the single-instance specification.
SingleTab == {1}

\* createContext's default, line 11: useContext gives undefined when no
\* provider is above the caller.
Undefined == [defined |-> FALSE]

\* The message of the error useTheme throws, line 77.
ProviderMissing == "useTheme must be used within a ThemeProvider"

\* Listeners one media query list may hold before the model stops adding.
MaxListeners == 3

\* playerRef.current = null: handles are numbered from 1.
NoPlayer == 0

\* Player handles the Home view constructs before the model stops mounting it.
MaxPlayers == 3

VARIABLES
    storage,        \* localStorage['letrecovery-theme'], None when absent
    os,             \* matchMedia('(prefers-color-scheme: dark)').matches
    mounted,        \* mounted[i]: tab i has a ThemeProvider mounted
    theme,          \* theme[i]: the theme state of the last render
    themeQ,         \* themeQ[i]: value queued by setThemeState, or None
    resolvedTheme,  \* resolvedTheme[i]: the resolvedTheme state of the last render
    resolvedQ,      \* resolvedQ[i]: value queued by setResolvedTheme, or None
    effectPending,  \* effectPending[i]: the last render's effect has not run yet
    effTheme,       \* effTheme[i]: theme captured by the installed effect, or None
    listeners,      \* listeners[i]: the captured theme of each attached handleChange
    rootDark,       \* rootDark[i]: document.documentElement has class 'dark'
    lastSet,        \* lastSet[i]: argument of the latest setTheme call since mount
    last,           \* the latest operation: what ran, where, and how it ended
    homeMounted,    \* the Home view (route '/') is mounted
    homeEffect,     \* Home's effect: "none", "pending" or "installed"
    playerRef,      \* playerRef.current: a player handle, or NoPlayer
    players,        \* players[h]: how often destroy() was called on handle h
    consumer        \* the latest useTheme() call of a component and its outcome

\* The provider's variables without the record of the latest operation.
themeVars == <<storage, os, mounted, theme, themeQ, resolvedTheme, resolvedQ,
               effectPending, effTheme, listeners, rootDark, lastSet>>

\* The Home view's variables.
homeVars == <<homeMounted, homeEffect, playerRef, players>>

vars == <<storage, os, mounted, theme, themeQ, resolvedTheme, resolvedQ,
          effectPending, effTheme, listeners, rootDark, lastSet, last,
          homeMounted, homeEffect, playerRef, players, consumer>>

\* ------------------------------------------------------- pure functions

\* The initializer comparing without regard to case.
InitialThemeAnyCase(stored) ==
    IF stored = "light" \/ stored = "dark" \/ stored = "system"
    THEN stored
    ELSE IF stored = "Dark" THEN "dark" ELSE "system"

\* useState initializer, lines 16-24: the stored string when it is exactly
\* one of the three literals, 'system' otherwise (null included).
InitialTheme(stored) ==
    IF stored = "light" \/ stored = "dark" \/ stored = "system"
    THEN stored
    ELSE "system"

\* Resolve with the explicit branch lost: the media query decides for every
\* preference.
ResolveAlwaysOS(t, matches) ==
    IF matches THEN "dark" ELSE "light"

\* Resolve with the branches of the ternary of line 35 swapped.
ResolveSwapped(t, matches) ==
    IF t = "system"
    THEN (IF matches THEN "light" ELSE "dark")
    ELSE t

\* updateResolvedTheme, lines 32-38: the value of `resolved` for the theme
\* the closure captured and the media query's `matches` at the call.
Resolve(t, matches) ==
    IF t = "system"
    THEN (IF matches THEN "dark" ELSE "light")
    ELSE t

\* The class is added for 'dark' and never removed.
ApplyRootClassAddOnly(resolved, hadDark) ==
    IF resolved = "dark" THEN TRUE ELSE hadDark

\* Variant of lines 42-46 that toggles the class instead of adding it.
ApplyRootClassToggle(resolved, hadDark) ==
    IF resolved = "dark" THEN ~hadDark ELSE FALSE

\* updateResolvedTheme, lines 42-46: classList.add('dark') when resolved is
\* 'dark', classList.remove('dark') otherwise; TRUE = the class is present.
ApplyRootClass(resolved, hadDark) ==
    IF resolved = "dark" THEN TRUE ELSE FALSE

\* updateResolvedTheme, lines 31-47, as one step on a tab's pair
\* (queued resolvedTheme, root has 'dark'): setResolvedTheme(resolved) queues
\* the value, then the root class is set to match.
UpdateResolvedTheme(t, matches, cur) ==
    [q |-> Resolve(t, matches),
     dark |-> ApplyRootClass(Resolve(t, matches), cur.dark)]

\* handleChange with the test of line 53 inverted: it never recomputes for
\* 'system'.
HandleChangeInverted(t, matches, cur) ==
    IF t # "system" THEN UpdateResolvedTheme(t, matches, cur) ELSE cur

\* handleChange, lines 52-56: recompute only when the captured theme is
\* 'system'.
HandleChange(t, matches, cur) ==
    IF t = "system" THEN UpdateResolvedTheme(t, matches, cur) ELSE cur

\* The media query list fires 'change': every attached handleChange runs, in
\* the order of registration.
RECURSIVE Dispatch(_, _, _)
Dispatch(ls, matches, cur) ==
    IF ls = <<>> THEN cur
    ELSE Dispatch(Tail(ls), matches, HandleChange(Head(ls), matches, cur))

\* mediaQuery.removeEventListener('change', handleChange), line 59: detaches
\* the handler the same effect run attached (the one that captured t).
RECURSIVE RemoveListener(_, _)
RemoveListener(ls, t) ==
    IF ls = <<>> THEN <<>>
    ELSE IF Head(ls) = t THEN Tail(ls)
    ELSE <<Head(ls)>> \o RemoveListener(Tail(ls), t)

\* A cleanup that detaches nothing (the effect returning no cleanup).
CleanupNothing(ls, installed) == ls

\* The cleanup React runs before re-running or discarding an effect: nothing
\* when no effect is installed.
Cleanup(ls, installed) ==
    IF installed = None THEN ls ELSE RemoveListener(ls, installed)

\* A guarded subscription: the handler is attached only for 'system'.
AddListenerSystemOnly(ls, t) == IF t = "system" THEN Append(ls, t) ELSE ls

\* mediaQuery.addEventListener('change', handleChange), line 58.
AddListener(ls, t) == Append(ls, t)

\* The display label is stored for 'dark' instead of the value.
PersistedValueLabel(newTheme) == IF newTheme = "dark" THEN "Dark" ELSE newTheme

\* The string localStorage.setItem is given on line 64: the argument itself.
PersistedValue(newTheme) == newTheme

\* An effect with an empty dependency list: it never re-runs.
DepsNeverChanged(prev, next) == FALSE

\* The dependency list [theme] of line 60: the effect re-runs when the theme
\* of the new render differs from the theme of the previous one.
DepsChanged(prev, next) == prev # next

\* The record of the latest operation. Lines 18 and 64 call localStorage
\* with no try/catch around them, so an exception of the storage call is an
\* exception of the initializer or of setTheme.
Op(o, i, a, e) ==
    [op |-> o, tab |-> i, arg |-> a, storageError |-> e, threw |-> e]

\* ---------------------------------------------------------------- state

Init ==
    /\ storage \in StoredValue
    /\ os \in BOOLEAN
    /\ mounted = [i \in Tab |-> FALSE]
    /\ theme = [i \in Tab |-> "system"]
    /\ themeQ = [i \in Tab |-> None]
    /\ resolvedTheme = [i \in Tab |-> "light"]
    /\ resolvedQ = [i \in Tab |-> None]
    /\ effectPending = [i \in Tab |-> FALSE]
    /\ effTheme = [i \in Tab |-> None]
    /\ listeners = [i \in Tab |-> <<>>]
    /\ rootDark = [i \in Tab |-> FALSE]
    /\ lastSet = [i \in Tab |-> None]
    /\ last = Op("load", 0, None, FALSE)
    /\ homeMounted = FALSE
    /\ homeEffect = "none"
    /\ playerRef = NoPlayer
    /\ players = <<>>
    /\ consumer = [called |-> FALSE, below |-> FALSE, threw |-> FALSE,
                   error |-> None, value |-> Undefined]

\* ThemeProvider's first render, lines 16-26. localStorage.getItem either
\* returns (the stored string or null) or throws (storage blocked for the
\* origin); a throw inside the initializer aborts the render, so nothing is
\* mounted. After a successful first render the effect of line 28 is pending.
Mount(i) ==
    /\ ~mounted[i]
    /\ \E storageError \in BOOLEAN :
         IF storageError
         THEN /\ last' = Op("mount", i, None, TRUE)
              /\ UNCHANGED <<storage, os, mounted, theme, themeQ, resolvedTheme,
                             resolvedQ, effectPending, effTheme, listeners,
                             rootDark, lastSet>>
         ELSE /\ mounted' = [mounted EXCEPT ![i] = TRUE]
              /\ theme' = [theme EXCEPT ![i] = InitialTheme(storage)]
              /\ themeQ' = [themeQ EXCEPT ![i] = None]
              /\ resolvedTheme' = [resolvedTheme EXCEPT ![i] = "light"]
              /\ resolvedQ' = [resolvedQ EXCEPT ![i] = None]
              /\ effectPending' = [effectPending EXCEPT ![i] = TRUE]
              /\ effTheme' = [effTheme EXCEPT ![i] = None]
              /\ lastSet' = [lastSet EXCEPT ![i] = None]
              /\ last' = Op("mount", i, None, FALSE)
              /\ UNCHANGED <<storage, os, listeners, rootDark>>
    /\ UNCHANGED <<homeVars, consumer>>

\* The effect of lines 28-60, with the cleanup of the previous run (line 59)
\* first: updateResolvedTheme() with the theme of the render, then a new
\* handleChange is attached.
RunEffect(i) ==
    /\ mounted[i]
    /\ effectPending[i]
    /\ Len(Cleanup(listeners[i], effTheme[i])) < MaxListeners
    /\ LET u == UpdateResolvedTheme(theme[i], os,
                                    [q |-> resolvedQ[i], dark |-> rootDark[i]])
       IN /\ resolvedQ' = [resolvedQ EXCEPT ![i] = u.q]
          /\ rootDark' = [rootDark EXCEPT ![i] = u.dark]
    /\ listeners' = [listeners EXCEPT ![i] =
                        AddListener(Cleanup(listeners[i], effTheme[i]), theme[i])]
    /\ effTheme' = [effTheme EXCEPT ![i] = theme[i]]
    /\ effectPending' = [effectPending EXCEPT ![i] = FALSE]
    /\ last' = Op("effect", i, None, FALSE)
    /\ UNCHANGED <<storage, os, mounted, theme, themeQ, resolvedTheme, lastSet>>
    /\ UNCHANGED <<homeVars, consumer>>

\* A re-render: the queued values become the state the context exposes
\* (line 68); the effect is scheduled when its dependency [theme] changed
\* (line 60). React runs a pending effect before it renders again.
Render(i) ==
    /\ mounted[i]
    /\ ~effectPending[i]
    /\ themeQ[i] # None \/ resolvedQ[i] # None
    /\ LET t == IF themeQ[i] # None THEN themeQ[i] ELSE theme[i]
           r == IF resolvedQ[i] # None THEN resolvedQ[i] ELSE resolvedTheme[i]
       IN /\ theme' = [theme EXCEPT ![i] = t]
          /\ resolvedTheme' = [resolvedTheme EXCEPT ![i] = r]
          /\ effectPending' = [effectPending EXCEPT ![i] = DepsChanged(theme[i], t)]
    /\ themeQ' = [themeQ EXCEPT ![i] = None]
    /\ resolvedQ' = [resolvedQ EXCEPT ![i] = None]
    /\ last' = Op("render", i, None, FALSE)
    /\ UNCHANGED <<storage, os, mounted, effTheme, listeners, rootDark, lastSet>>
    /\ UNCHANGED <<homeVars, consumer>>

\* setTheme persisting the theme of the current render instead of its
\* argument.
SetThemeStale(i, newTheme) ==
    /\ mounted[i]
    /\ themeQ' = [themeQ EXCEPT ![i] = newTheme]
    /\ lastSet' = [lastSet EXCEPT ![i] = newTheme]
    /\ \E storageError \in BOOLEAN :
         /\ storage' = IF storageError THEN storage ELSE theme[i]
         /\ last' = Op("setTheme", i, newTheme, storageError)
    /\ UNCHANGED <<os, mounted, theme, resolvedTheme, resolvedQ, effectPending,
                   effTheme, listeners, rootDark>>
    /\ UNCHANGED <<homeVars, consumer>>

\* setTheme, lines 62-65: setThemeState(newTheme) queues the value, then
\* localStorage.setItem writes it or throws (quota, storage blocked); the
\* queued update stays queued either way.
SetTheme(i, newTheme) ==
    /\ mounted[i]
    /\ themeQ' = [themeQ EXCEPT ![i] = newTheme]
    /\ lastSet' = [lastSet EXCEPT ![i] = newTheme]
    /\ \E storageError \in BOOLEAN :
         /\ storage' = IF storageError THEN storage ELSE PersistedValue(newTheme)
         /\ last' = Op("setTheme", i, newTheme, storageError)
    /\ UNCHANGED <<os, mounted, theme, resolvedTheme, resolvedQ, effectPending,
                   effTheme, listeners, rootDark>>
    /\ UNCHANGED <<homeVars, consumer>>

\* The OS color scheme flips and every tab's media query list fires
\* 'change' to the handlers attached to it (line 58). setResolvedTheme on an
\* unmounted provider queues nothing.
OsChange ==
    /\ os' = ~os
    /\ LET after(i) == Dispatch(listeners[i], ~os,
                                [q |-> resolvedQ[i], dark |-> rootDark[i]])
       IN /\ resolvedQ' = [i \in Tab |-> IF mounted[i] THEN after(i).q ELSE None]
          /\ rootDark' = [i \in Tab |-> after(i).dark]
    /\ last' = Op("osChange", 0, None, FALSE)
    /\ UNCHANGED <<storage, mounted, theme, themeQ, resolvedTheme, effectPending,
                   effTheme, listeners, lastSet>>
    /\ UNCHANGED <<homeVars, consumer>>

\* An unmount that also removes the stored entry.
UnmountClearing(i) ==
    /\ mounted[i]
    /\ ~effectPending[i]
    /\ mounted' = [mounted EXCEPT ![i] = FALSE]
    /\ listeners' = [listeners EXCEPT ![i] = Cleanup(listeners[i], effTheme[i])]
    /\ theme' = [theme EXCEPT ![i] = "system"]
    /\ themeQ' = [themeQ EXCEPT ![i] = None]
    /\ resolvedTheme' = [resolvedTheme EXCEPT ![i] = "light"]
    /\ resolvedQ' = [resolvedQ EXCEPT ![i] = None]
    /\ effectPending' = [effectPending EXCEPT ![i] = FALSE]
    /\ effTheme' = [effTheme EXCEPT ![i] = None]
    /\ lastSet' = [lastSet EXCEPT ![i] = None]
    /\ last' = Op("unmount", i, None, FALSE)
    /\ storage' = None
    /\ UNCHANGED <<os, rootDark>>
    /\ UNCHANGED <<homeVars, consumer>>

\* The provider is discarded: the installed effect's cleanup runs (line 59)
\* and the component's state is dropped. The root class and the stored
\* entry are left as they are.
Unmount(i) ==
    /\ mounted[i]
    /\ ~effectPending[i]
    /\ mounted' = [mounted EXCEPT ![i] = FALSE]
    /\ listeners' = [listeners EXCEPT ![i] = Cleanup(listeners[i], effTheme[i])]
    /\ theme' = [theme EXCEPT ![i] = "system"]
    /\ themeQ' = [themeQ EXCEPT ![i] = None]
    /\ resolvedTheme' = [resolvedTheme EXCEPT ![i] = "light"]
    /\ resolvedQ' = [resolvedQ EXCEPT ![i] = None]
    /\ effectPending' = [effectPending EXCEPT ![i] = FALSE]
    /\ effTheme' = [effTheme EXCEPT ![i] = None]
    /\ lastSet' = [lastSet EXCEPT ![i] = None]
    /\ last' = Op("unmount", i, None, FALSE)
    /\ UNCHANGED <<storage, os, rootDark>>
    /\ UNCHANGED <<homeVars, consumer>>

\* --------------------------------------------------------- useTheme hook

\* The context value of the provider of tab i, line 68: the rendered theme,
\* the provider's setTheme (named by its provider) and resolvedTheme.
ContextValue(i) ==
    [defined |-> TRUE, theme |-> theme[i], setTheme |-> i,
     resolvedTheme |-> resolvedTheme[i]]

\* Variant of useTheme that falls back to a default value instead of
\* throwing when no provider is above the caller.
UseThemeDefault(context) ==
    IF context = Undefined
    THEN [threw |-> FALSE, error |-> None,
          value |-> [defined |-> TRUE, theme |-> "system", setTheme |-> 0,
                     resolvedTheme |-> "light"]]
    ELSE [threw |-> FALSE, error |-> None, value |-> context]

\* useTheme, lines 74-80: throws when useContext gave undefined, otherwise
\* returns the context value as it is.
UseTheme(context) ==
    IF context = Undefined
    THEN [threw |-> TRUE, error |-> ProviderMissing, value |-> Undefined]
    ELSE [threw |-> FALSE, error |-> None, value |-> context]

\* A component calls useTheme() while it renders: below the provider of
\* tab 1 (Header, Footer.tsx line 77) useContext gives the provider's value,
\* with no provider above it gives the default of line 11.
UseThemeCall(below) ==
    /\ below => mounted[1]
    /\ LET context == IF below THEN ContextValue(1) ELSE Undefined
           r == UseTheme(context)
       IN /\ consumer' = [called |-> TRUE, below |-> below, threw |-> r.threw,
                          error |-> r.error, value |-> r.value]
          /\ last' = Op("useTheme", 1, None, FALSE)
    /\ UNCHANGED <<themeVars, homeVars>>

\* ------------------------------------------------------ Home view player

\* Handles that were constructed and not destroyed.
Live(ps) == {h \in 1..Len(ps) : ps[h] = 0}

\* Variant of the effect body without the test of playerRef.current:
\* constructs whenever the container is attached.
MountPlayerUnguarded(artRef, ref, ps) ==
    IF artRef
    THEN [ref |-> Len(ps) + 1, ps |-> Append(ps, 0)]
    ELSE [ref |-> ref, ps |-> ps]

\* The effect body, Home.tsx lines 39-69: a new Artplayer is constructed and
\* stored in playerRef.current only if the container is attached and
\* playerRef.current is null. A new handle is the next index of players.
MountPlayer(artRef, ref, ps) ==
    IF artRef /\ ref = NoPlayer
    THEN [ref |-> Len(ps) + 1, ps |-> Append(ps, 0)]
    ELSE [ref |-> ref, ps |-> ps]

\* Variant of the cleanup that clears the reference without calling destroy().
CleanupPlayerKeepAlive(ref, ps) == [ref |-> NoPlayer, ps |-> ps]

\* Variant of the cleanup that calls destroy() and keeps the reference.
CleanupPlayerKeepRef(ref, ps) ==
    IF ref # NoPlayer
    THEN [ref |-> ref, ps |-> [ps EXCEPT ![ref] = @ + 1]]
    ELSE [ref |-> ref, ps |-> ps]

\* The effect's cleanup, Home.tsx lines 71-76: if playerRef.current is set,
\* destroy() is called on it and playerRef.current becomes null.
CleanupPlayer(ref, ps) ==
    IF ref # NoPlayer
    THEN [ref |-> NoPlayer, ps |-> [ps EXCEPT ![ref] = @ + 1]]
    ELSE [ref |-> ref, ps |-> ps]

\* Home's first render (route '/' inside ThemeProvider, App.tsx): useRef
\* gives playerRef.current = null (line 36) and the effect of line 38 is
\* pending; the container div of line 325 is attached at commit.
HomeMount ==
    /\ mounted[1]
    /\ ~homeMounted
    /\ Len(players) < MaxPlayers
    /\ homeMounted' = TRUE
    /\ homeEffect' = "pending"
    /\ playerRef' = NoPlayer
    /\ last' = Op("homeMount", 1, None, FALSE)
    /\ UNCHANGED <<players, themeVars, consumer>>

\* The effect of lines 38-69 runs after the commit.
HomeEffect ==
    /\ homeMounted
    /\ homeEffect = "pending"
    /\ LET r == MountPlayer(homeMounted, playerRef, players) IN
         /\ playerRef' = r.ref
         /\ players' = r.ps
    /\ homeEffect' = "installed"
    /\ last' = Op("homeEffect", 1, None, FALSE)
    /\ UNCHANGED <<homeMounted, themeVars, consumer>>

\* React's development double invocation (Strict Mode, Fast Refresh): the
\* cleanup of lines 71-76 runs while Home stays rendered, with its refs
\* kept, and the effect is run again.
HomeStrictRerun ==
    /\ homeMounted
    /\ homeEffect = "installed"
    /\ Len(players) < MaxPlayers
    /\ LET r == CleanupPlayer(playerRef, players) IN
         /\ playerRef' = r.ref
         /\ players' = r.ps
    /\ homeEffect' = "pending"
    /\ last' = Op("homeRerun", 1, None, FALSE)
    /\ UNCHANGED <<homeMounted, themeVars, consumer>>

\* Home unmounts (navigation to another route): the cleanup of lines 71-76.
\* A pending effect is flushed before the unmount.
HomeUnmount ==
    /\ homeMounted
    /\ homeEffect = "installed"
    /\ LET r == CleanupPlayer(playerRef, players) IN
         /\ playerRef' = r.ref
         /\ players' = r.ps
    /\ homeMounted' = FALSE
    /\ homeEffect' = "none"
    /\ last' = Op("homeUnmount", 1, None, FALSE)
    /\ UNCHANGED <<themeVars, consumer>>

\* The effect body of lines 39-69 applied once more while its previous run is
\* still installed, without the cleanup in between: the case the test of
\* playerRef.current on line 39 exists for.
HomeEffectRepeat ==
    /\ homeMounted
    /\ homeEffect = "installed"
    /\ Len(players) < MaxPlayers
    /\ LET r == MountPlayer(homeMounted, playerRef, players) IN
         /\ playerRef' = r.ref
         /\ players' = r.ps
    /\ last' = Op("homeEffectRepeat", 1, None, FALSE)
    /\ UNCHANGED <<homeMounted, homeEffect, themeVars, consumer>>

\* The provider is the root of the tree (App.tsx): it unmounts after Home.
AppUnmount(i) ==
    /\ ~homeMounted
    /\ Unmount(i)

Next ==
    \/ \E i \in SingleTab : Mount(i)
    \/ \E i \in SingleTab : RunEffect(i)
    \/ \E i \in SingleTab : Render(i)
    \/ \E i \in SingleTab, newTheme \in Theme : SetTheme(i, newTheme)
    \/ \E i \in SingleTab : AppUnmount(i)
    \/ OsChange
    \/ HomeMount
    \/ HomeEffect
    \/ HomeStrictRerun
    \/ HomeUnmount

Spec == Init /\ [][Next]_vars

\* React's development double invocation of the effect of lines 28-60 with
\* unchanged dependencies: the cleanup of line 59, then the effect again, so
\* updateResolvedTheme() runs once more with the same theme.
StrictRerun(i) ==
    /\ mounted[i]
    /\ ~effectPending[i]
    /\ effTheme[i] # None
    /\ Len(Cleanup(listeners[i], effTheme[i])) < MaxListeners
    /\ LET u == UpdateResolvedTheme(theme[i], os,
                                    [q |-> resolvedQ[i], dark |-> rootDark[i]])
       IN /\ resolvedQ' = [resolvedQ EXCEPT ![i] = u.q]
          /\ rootDark' = [rootDark EXCEPT ![i] = u.dark]
    /\ listeners' = [listeners EXCEPT ![i] =
                        AddListener(Cleanup(listeners[i], effTheme[i]), theme[i])]
    /\ effTheme' = [effTheme EXCEPT ![i] = theme[i]]
    /\ last' = Op("rerun", i, None, FALSE)
    /\ UNCHANGED <<storage, os, mounted, theme, themeQ, resolvedTheme,
                   effectPending, lastSet>>
    /\ UNCHANGED <<homeVars, consumer>>

\* The program under the development double invocation of the theme effect.
NextStrict ==
    \/ Next
    \/ \E i \in SingleTab : StrictRerun(i)

SpecStrict == Init /\ [][NextStrict]_vars

\* The program with components that call useTheme(), below the provider
\* and outside of any provider.
NextConsumer ==
    \/ Next
    \/ \E below \in BOOLEAN : UseThemeCall(below)

SpecConsumer == Init /\ [][NextConsumer]_vars

\* Two browser tabs of the site: one ThemeProvider each, with its own
\* document root and media query list, over the origin's one localStorage
\* entry and the machine's one OS color scheme. The code registers no
\* 'storage' event listener, so a tab reads the entry only in the
\* initializer of lines 16-24.
NextTabs ==
    \/ \E i \in Tab : Mount(i)
    \/ \E i \in Tab : RunEffect(i)
    \/ \E i \in Tab : Render(i)
    \/ \E i \in Tab, newTheme \in Theme : SetTheme(i, newTheme)
    \/ \E i \in Tab : AppUnmount(i)
    \/ OsChange

SpecTabs == Init /\ [][NextTabs]_vars

\* The same program with the effect body also applied while installed.
NextGuard ==
    \/ Next
    \/ HomeEffectRepeat

SpecGuard == Init /\ [][NextGuard]_vars

TypeOK ==
    /\ storage \in StoredValue
    /\ os \in BOOLEAN
    /\ mounted \in [Tab -> BOOLEAN]
    /\ theme \in [Tab -> Theme]
    /\ themeQ \in [Tab -> Theme \cup {None}]
    /\ resolvedTheme \in [Tab -> Resolved]
    /\ resolvedQ \in [Tab -> Resolved \cup {None}]
    /\ effectPending \in [Tab -> BOOLEAN]
    /\ effTheme \in [Tab -> Theme \cup {None}]
    /\ \A i \in Tab : Len(listeners[i]) <= MaxListeners
    /\ rootDark \in [Tab -> BOOLEAN]
    /\ lastSet \in [Tab -> Theme \cup {None}]
    /\ homeMounted \in BOOLEAN
    /\ homeEffect \in {"none", "pending", "installed"}
    /\ playerRef \in {NoPlayer} \cup (1..MaxPlayers)
    /\ Len(players) <= MaxPlayers
    /\ \A h \in 1..Len(players) : players[h] \in 0..2
    /\ consumer.called \in BOOLEAN
    /\ consumer.below \in BOOLEAN
    /\ consumer.threw \in BOOLEAN
    /\ consumer.error \in {None, ProviderMissing}

\* ------------------------------------------------------------ properties

\* The value `matches ? 'dark' : 'light'` for the current OS signal.
OsTheme == IF os THEN "dark" ELSE "light"

\* Tab i has nothing left to do: no effect is pending and no state update is
\* queued.
Settled(i) ==
    /\ mounted[i]
    /\ ~effectPending[i]
    /\ themeQ[i] = None
    /\ resolvedQ[i] = None

\* C1: after setTheme(p) returns, the stored value is p (and p is the queued
\* preference); once the re-render has happened, the preference the context
\* exposes is the p of the latest call.
C1_SetThemePersists ==
    /\ (last.op = "setTheme" /\ ~last.threw) =>
           /\ storage = last.arg
           /\ themeQ[last.tab] = last.arg
    /\ \A i \in Tab :
           (mounted[i] /\ lastSet[i] # None /\ themeQ[i] = None) =>
               theme[i] = lastSet[i]

\* C1 witness: setTheme('light') was called under another preference and
\* its re-render has just happened: 'light' is stored and exposed, and the
\* effect for the changed preference is pending.
C1_Witness ==
    /\ last.op = "render"
    /\ lastSet[1] = "light"
    /\ theme[1] = "light"
    /\ storage = "light"
    /\ themeQ[1] = None
    /\ effectPending[1]

C3_SystemFollowsOs ==
    \A i \in Tab :
        /\ (last.op = "effect" /\ last.tab = i /\ theme[i] = "system") =>
               resolvedQ[i] = OsTheme
        /\ (last.op = "osChange" /\ mounted[i] /\ ~effectPending[i]
              /\ theme[i] = "system") =>
               resolvedQ[i] = OsTheme
        /\ (Settled(i) /\ theme[i] = "system") =>
               resolvedTheme[i] = OsTheme

\* C3 witness: preference system is settled on dark with the OS dark.
C3_Witness ==
    /\ Settled(1)
    /\ theme[1] = "system"
    /\ os
    /\ resolvedTheme[1] = "dark"

\* C4: while the preference is light or dark, an OS change notification
\* changes neither the Resolved Theme (exposed or queued) nor the 'dark'
\* class of the root.
C4_OsChangeIgnoredWhenExplicit ==
    [][\A i \in Tab :
         (os' # os /\ mounted[i] /\ theme[i] \in Resolved) =>
             /\ rootDark'[i] = rootDark[i]
             /\ resolvedQ'[i] = resolvedQ[i]
             /\ resolvedTheme'[i] = resolvedTheme[i]]_vars

\* C5: while the preference is system and the provider is mounted, right
\* after the handling of an OS change notification the Resolved Theme and
\* the root's 'dark' class equal the new OS value.
C5_OsChangeAppliedAtOnce ==
    [][\A i \in Tab :
         (os' # os /\ mounted[i] /\ theme[i] = "system") =>
             /\ resolvedTheme'[i] = (IF os' THEN "dark" ELSE "light")
             /\ rootDark'[i] = os']_vars

\* C6: when getItem returns, the first render raises nothing and the
\* preference is the stored value if that is exactly 'light', 'dark' or
\* 'system', and 'system' for an absent key or any other string.
C6_InitialPreference ==
    (last.op = "mount" /\ ~last.storageError) =>
        /\ ~last.threw
        /\ mounted[last.tab]
        /\ theme[last.tab] = (IF storage \in Theme THEN storage ELSE "system")

\* C6 witness: the provider has just mounted over a stored 'Dark' (not one
\* of the three literals) with preference system.
C6_Witness ==
    /\ last.op = "mount"
    /\ ~last.threw
    /\ mounted[1]
    /\ storage = "Dark"
    /\ theme[1] = "system"

\* C7 as claimed: in every state of a mounted provider the Resolved Theme
\* is light or dark and equals resolve(preference, OS signal).
C7_ResolvedAlwaysCurrent ==
    \A i \in Tab :
        mounted[i] =>
            /\ resolvedTheme[i] \in Resolved
            /\ resolvedTheme[i] = Resolve(theme[i], os)

\* C7 amended: the Resolved Theme is light or dark in every state, and it
\* equals resolve(preference, OS signal) in every state where no effect and
\* no state update is pending.
C7_ResolvedCurrentWhenSettled ==
    \A i \in Tab :
        /\ resolvedTheme[i] \in Resolved
        /\ Settled(i) => resolvedTheme[i] = Resolve(theme[i], os)

\* C7 witness: a settled provider that follows the OS on dark, after an
\* earlier render had exposed light.
C7_Witness ==
    /\ Settled(1)
    /\ theme[1] = "system"
    /\ os
    /\ resolvedTheme[1] = "dark"
    /\ last.op = "render"

\* C8: once setTheme has been called (and, at the latest, its re-render has
\* happened) the persisted value and the preference the context exposes are
\* the same.
C8_PersistedMatchesPreference ==
    \A i \in SingleTab :
        (mounted[i] /\ lastSet[i] # None /\ themeQ[i] = None) =>
            storage = theme[i]

\* C9: a failing storage call raises nothing out of the provider: after a
\* failed read the provider is mounted with preference system, after a
\* failed write the new value is the queued preference.
C9_StorageErrorsContained ==
    last.storageError =>
        /\ ~last.threw
        /\ last.op = "mount" =>
               (mounted[last.tab] /\ theme[last.tab] = "system")
        /\ last.op = "setTheme" => themeQ[last.tab] = last.arg

\* The value the latest resolution run of tab i produced: the queued one, or
\* the rendered one when the queue is empty.
LatestResolved(i) ==
    IF resolvedQ[i] # None THEN resolvedQ[i] ELSE resolvedTheme[i]

\* C10: once the resolution step has run for a mounted provider, the root
\* has the 'dark' class exactly when the latest Resolved Theme is dark.
C10_RootClassMatchesResolved ==
    \A i \in Tab :
        (mounted[i] /\ effTheme[i] # None) =>
            (rootDark[i] <=> LatestResolved(i) = "dark")

\* C10 witness: the OS went from dark to light under preference system; the
\* handler has removed the class and queued light while dark is still the
\* rendered value.
C10_Witness ==
    /\ last.op = "osChange"
    /\ mounted[1]
    /\ effTheme[1] = "system"
    /\ ~os
    /\ ~rootDark[1]
    /\ resolvedQ[1] = "light"
    /\ resolvedTheme[1] = "dark"

\* C11: at most one change listener of the provider is attached to the media
\* query at any time, and none is attached while the provider is unmounted.
C11_ListenerNeverLeaked ==
    \A i \in Tab :
        /\ Len(listeners[i]) <= 1
        /\ ~mounted[i] => listeners[i] = <<>>

\* C11 witness: the provider has been unmounted after its effect had set the
\* root class for a dark preference; no listener is left.
C11_Witness ==
    /\ last.op = "unmount"
    /\ ~mounted[1]
    /\ rootDark[1]
    /\ listeners[1] = <<>>

\* C12 as claimed, for the states where nothing is pending: a listener is
\* attached exactly when the preference is system, and none is attached
\* while the provider is unmounted.
C12_ListenerOnlyWhileSystem ==
    \A i \in Tab :
        /\ Settled(i) => (listeners[i] # <<>> <=> theme[i] = "system")
        /\ ~mounted[i] => listeners[i] = <<>>

\* C12 amended: from the first effect run until unmount exactly one listener
\* is attached, whatever the preference; it is the handler of the latest
\* effect run, and once no effect is pending the theme it captured is the
\* current preference (so for light and dark it is attached and does
\* nothing).
C12_ListenerForEveryPreference ==
    \A i \in Tab :
        /\ listeners[i] = (IF effTheme[i] = None THEN <<>> ELSE <<effTheme[i]>>)
        /\ (mounted[i] /\ ~effectPending[i]) => effTheme[i] = theme[i]
        /\ ~mounted[i] => effTheme[i] = None

\* C12 witness: preference light is settled and its handler is attached.
C12_Witness ==
    /\ Settled(1)
    /\ theme[1] = "light"
    /\ listeners[1] = <<"light">>

\* The preference tab i holds in memory: the queued one, or the rendered one
\* when the queue is empty.
Preference(i) == IF themeQ[i] # None THEN themeQ[i] ELSE theme[i]

\* C14: only setTheme changes the in-memory preference of a mounted provider
\* and only setTheme writes the stored entry: OS notifications, effect runs,
\* re-renders and unmount leave both as they are, and no step removes the
\* entry.
C14_OnlySetThemeChangesPreference ==
    [][/\ last'.op # "setTheme" => storage' = storage
       /\ storage # None => storage' # None
       /\ \A i \in Tab :
            (mounted[i] /\ mounted'[i] /\ last'.op # "setTheme") =>
                Preference(i)' = Preference(i)]_vars

\* C14 witness: the provider was unmounted and the entry 'dark' is still
\* stored.
C14_Witness ==
    /\ last.op = "unmount"
    /\ ~mounted[1]
    /\ storage = "dark"

\* C19 as claimed: in every state the provider has acted in, the stored
\* value is absent or one of 'light', 'dark', 'system'.
C19_StoredAlwaysLiteral ==
    last.op # "load" => storage \in Theme \cup {None}

\* C19 amended: the provider writes only the three literals: every change of
\* the stored value leaves one of them, a stored literal stays a literal, and
\* after a setTheme that returns the stored value is one of them. (A value
\* of another origin found at load stays until the first such write.)
C19_ProviderWritesLiterals ==
    [][/\ storage' # storage => storage' \in Theme
       /\ storage \in Theme => storage' \in Theme
       /\ (last'.op = "setTheme" /\ ~last'.threw) => storage' \in Theme]_vars

\* C19 witness: setTheme('dark') has just returned and 'dark' is stored.
C19_Witness ==
    /\ last.op = "setTheme"
    /\ ~last.threw
    /\ last.arg = "dark"
    /\ storage = "dark"

\* C20: once no effect and no state update is pending, the Resolved Theme and
\* the root's 'dark' class both equal resolve(preference, OS signal),
\* whatever interleaving of setTheme, notifications, renders and effect
\* runs led there.
C20_Convergence ==
    \A i \in Tab :
        Settled(i) =>
            LET expected == IF theme[i] = "system" THEN OsTheme ELSE theme[i]
            IN /\ resolvedTheme[i] = expected
               /\ rootDark[i] <=> expected = "dark"

\* C20 witness: after setTheme('light') the provider has settled on light
\* with the class removed while the OS reports dark.
C20_Witness ==
    /\ Settled(1)
    /\ last.op = "render"
    /\ lastSet[1] = "light"
    /\ theme[1] = "light"
    /\ resolvedTheme[1] = "light"
    /\ ~rootDark[1]
    /\ os

\* C13: the end-to-end trace. Mounted over an absent entry the preference is
\* system and, once settled, the Resolved Theme is the OS value; a
\* setTheme('dark') that returns stores 'dark' and the provider settles on
\* dark with the class present; and from any state where the preference is
\* dark in memory and in storage, the Resolved Theme is dark and the class is
\* present, an OS flip to light leaves the Resolved Theme dark and the class
\* present.
C13_EndToEndTrace ==
    /\ [](/\ (last.op = "mount" /\ ~last.threw /\ storage = None) =>
                 theme[last.tab] = "system"
          /\ (last.op = "setTheme" /\ last.arg = "dark" /\ ~last.threw) =>
                 storage = "dark"
          /\ \A i \in Tab :
               /\ (Settled(i) /\ storage = None /\ lastSet[i] = None) =>
                      resolvedTheme[i] = OsTheme
               /\ (Settled(i) /\ lastSet[i] = "dark") =>
                      (resolvedTheme[i] = "dark" /\ rootDark[i]))
    /\ [][\A i \in Tab :
            (/\ os /\ ~os'
             /\ mounted[i] /\ lastSet[i] = "dark" /\ storage = "dark"
             /\ theme[i] = "dark" /\ themeQ[i] = None
             /\ resolvedTheme[i] = "dark" /\ rootDark[i]) =>
                (rootDark'[i] /\ LatestResolved(i)' = "dark")]_vars

\* C15: the Home view constructs the player once per mount and destroys it
\* once per unmount, and two live handles never exist together, the
\* mount-unmount-mount sequence of React's double invocation included: while
\* the effect is installed playerRef is the one live handle, otherwise no
\* handle is live and playerRef is null; no handle is destroyed twice.
C15_OnePlayerPerMount ==
    /\ Cardinality(Live(players)) <= 1
    /\ homeEffect = "installed" =>
         /\ playerRef # NoPlayer
         /\ Live(players) = {playerRef}
    /\ homeEffect # "installed" =>
         /\ playerRef = NoPlayer
         /\ Live(players) = {}
    /\ \A h \in 1..Len(players) : players[h] <= 1

\* Reached: after a cleanup (a re-run or an unmount) the effect ran again;
\* the first handle is destroyed once and the second is the live one.
C15_Witness ==
    /\ homeMounted
    /\ last.op = "homeEffect"
    /\ players = <<1, 0>>
    /\ playerRef = 2

\* C16: construction is guarded: when the effect body runs while playerRef
\* holds a handle, no player is constructed and the handle stays as it is.
C16_ConstructionGuarded ==
    [][(last'.op \in {"homeEffect", "homeEffectRepeat"} /\ playerRef # NoPlayer)
         => (playerRef' = playerRef /\ players' = players)]_vars

\* Reached: the effect body ran again over a live handle, which is still the
\* only handle ever constructed.
C16_Witness ==
    /\ last.op = "homeEffectRepeat"
    /\ playerRef = 1
    /\ players = <<0>>

\* C17: unmounting Home destroys the live handle and clears playerRef, and a
\* later effect run constructs a fresh handle: playerRef never holds a
\* destroyed handle, no handle is destroyed twice, nothing is live and
\* nothing is referenced while Home is unmounted, and the handle an effect
\* run stores is one that did not exist before.
C17_DestroyedHandleNeverReused ==
    /\ [](/\ playerRef # NoPlayer =>
              /\ playerRef \in 1..Len(players)
              /\ players[playerRef] = 0
          /\ \A h \in 1..Len(players) : players[h] <= 1
          /\ ~homeMounted => (playerRef = NoPlayer /\ Live(players) = {}))
    /\ [][last'.op = "homeEffect" =>
            /\ playerRef' \notin 1..Len(players)
            /\ playerRef' \in 1..Len(players')
            /\ players'[playerRef'] = 0]_vars

\* Reached: Home was mounted and unmounted twice; each mount had its own
\* handle, each was destroyed once, and nothing is referenced now.
C17_Witness ==
    /\ ~homeMounted
    /\ last.op = "homeUnmount"
    /\ players = <<1, 1>>
    /\ playerRef = NoPlayer

\* C18: the resolution step run twice in succession with the same preference
\* and OS signal gives the same Resolved Theme and the same root 'dark' marker
\* both times: applying updateResolvedTheme to its own result changes
\* nothing, and an effect run followed at once by a re-run of the effect
\* leaves the queued Resolved Theme and the root class as the first run set
\* them.
C18_ResolutionIdempotent ==
    /\ [](\A i \in SingleTab, t \in Theme, m \in BOOLEAN :
            LET once == UpdateResolvedTheme(t, m,
                            [q |-> resolvedQ[i], dark |-> rootDark[i]])
            IN UpdateResolvedTheme(t, m, once) = once)
    /\ [][\A i \in SingleTab :
            (/\ last.op \in {"effect", "rerun"}
             /\ last.tab = i
             /\ last'.op = "rerun"
             /\ last'.tab = i)
            => (resolvedQ'[i] = resolvedQ[i] /\ rootDark'[i] = rootDark[i])]_vars

\* Reached: stored 'dark', and the effect ran and was re-run before any
\* re-render; the queued Resolved Theme is 'dark' and the root has the class.
C18_Witness ==
    /\ last.op = "rerun"
    /\ lastSet[1] = None
    /\ theme[1] = "dark"
    /\ resolvedTheme[1] = "light"
    /\ resolvedQ[1] = "dark"
    /\ rootDark[1]

\* C21: two providers over the same storage are not synchronized, and one
\* provider alone keeps its preference equal to the persisted value. On a
\* setTheme call of tab i every other tab's preference, Resolved Theme and
\* root class stay as they are, and the call leaves tab i's preference equal
\* to the stored value; once tab i has called setTheme and its preference
\* equals the stored value, only another tab's setTheme ends that.
C21_TabsNotSynchronized ==
    [][\A i \in Tab :
          /\ (last'.op = "setTheme" /\ last'.tab = i) =>
                /\ \A j \in Tab \ {i} :
                      /\ theme'[j] = theme[j]
                      /\ themeQ'[j] = themeQ[j]
                      /\ resolvedTheme'[j] = resolvedTheme[j]
                      /\ resolvedQ'[j] = resolvedQ[j]
                      /\ rootDark'[j] = rootDark[j]
                /\ Preference(i)' = storage'
          /\ (/\ mounted[i] /\ mounted'[i]
              /\ lastSet[i] # None
              /\ Preference(i) = storage
              /\ ~(last'.op = "setTheme" /\ last'.tab # i))
             => Preference(i)' = storage']_vars

\* C22: useTheme called by a component with no ThemeProvider above it throws
\* the error 'useTheme must be used within a ThemeProvider' and returns no
\* context value; called below a provider it does not throw and returns
\* that provider's theme, setTheme and resolvedTheme as rendered at the call.
C22_UseThemeNeedsProvider ==
    /\ [](consumer.called =>
            /\ ~consumer.below =>
                  /\ consumer.threw
                  /\ consumer.error = ProviderMissing
                  /\ consumer.value = Undefined
            /\ consumer.below =>
                  /\ ~consumer.threw
                  /\ consumer.error = None
                  /\ consumer.value.defined
                  /\ consumer.value.theme \in Theme
                  /\ consumer.value.resolvedTheme \in Resolved
                  /\ consumer.value.setTheme = 1)
    /\ [][(last'.op = "useTheme" /\ consumer'.below) =>
            /\ mounted[1]
            /\ consumer'.value.theme = theme[1]
            /\ consumer'.value.resolvedTheme = resolvedTheme[1]]_vars

\* Reached: while the provider is mounted, a component outside of it called
\* useTheme and the call threw.
C22_Witness ==
    /\ mounted[1]
    /\ last.op = "useTheme"
    /\ consumer.called
    /\ ~consumer.below
    /\ consumer.threw

====
